---- MODULE Spec2Model ----
(***************************************************************************)
(* A model of src/src/git_issues.py: the issue list helpers                *)
(* (list_open_issues, close_implemented_issues, complete_open_issues),     *)
(* the loader and saver, and the file locator find_issues_file.            *)
(*                                                                         *)
(* Text is a sequence of one-character strings, so that str.strip and      *)
(* str.lower are computed rather than assumed.  A JSON value is a record   *)
(* [t, s, n] (tag, text, number); a JSON object / Python dict is a         *)
(* function from a set of keys to values.  An element of an issues         *)
(* sequence is a record [isMap, d]: the code tests isinstance(issue,       *)
(* MutableMapping) on every element.                                       *)
(***************************************************************************)
EXTENDS Integers, Sequences, FiniteSets, TLC

VARIABLES issues, fs, env, now, last, hist, issues0

vars == <<issues, fs, env, now, last, hist, issues0>>

-----------------------------------------------------------------------------
(* Bounds of the model.                                                    *)

\* Longest in-memory issues sequence drawn by Init.
MaxIssues == 2

\* Number of calls made in one behaviour (also the range of the clock).
MaxCalls == 2

\* Number of entries (files or directories) placed in the file system by InitFile.
MaxEntries == 2

-----------------------------------------------------------------------------
(* Text: str.strip() and str.lower().                                      *)

UpperLetters == <<"A","B","C","D","E","F","G","H","I","J","K","L","M",
                  "N","O","P","Q","R","S","T","U","V","W","X","Y","Z">>

LowerLetters == <<"a","b","c","d","e","f","g","h","i","j","k","l","m",
                  "n","o","p","q","r","s","t","u","v","w","x","y","z">>

\* The white-space characters str.strip() removes, as far as the model has them.
Whitespace == {" ", "\t", "\n", "\r", "\f"}

\* str.lower() on one character: an upper-case letter becomes its lower-case
\* letter, any other character stays.
LowerTable ==
    [c \in { UpperLetters[i] : i \in 1..Len(UpperLetters) } |->
        LowerLetters[CHOOSE i \in 1..Len(UpperLetters) : UpperLetters[i] = c]]

LowerChar(c) == IF c \in DOMAIN LowerTable THEN LowerTable[c] ELSE c

lower(s) == [i \in 1..Len(s) |-> LowerChar(s[i])]

RECURSIVE lstrip(_)
lstrip(s) == IF s # <<>> /\ Head(s) \in Whitespace THEN lstrip(Tail(s)) ELSE s

RECURSIVE rstrip(_)
rstrip(s) ==
    IF s # <<>> /\ s[Len(s)] \in Whitespace
    THEN rstrip(SubSeq(s, 1, Len(s) - 1))
    ELSE s

strip(s) == rstrip(lstrip(s))

\* String literals of the source, as text.
t_open        == <<"o","p","e","n">>
t_opened      == <<"o","p","e","n","e","d">>
t_todo        == <<"t","o","d","o">>
t_backlog     == <<"b","a","c","k","l","o","g">>
t_in_progress == <<"i","n","_","p","r","o","g","r","e","s","s">>
t_implemented == <<"i","m","p","l","e","m","e","n","t","e","d">>
t_closed      == <<"c","l","o","s","e","d">>
t_completed   == <<"c","o","m","p","l","e","t","e","d">>

-----------------------------------------------------------------------------
(* JSON values and dicts.                                                  *)

Str(s) == [t |-> "str", s |-> s, n |-> 0]
Num(n) == [t |-> "int", s |-> <<>>, n |-> n]
\* Python's None, which is also what json.load gives for null.
None == [t |-> "null", s |-> <<>>, n |-> 0]

EmptyDict == [k \in {} |-> None]

\* dict.get(key): the value, or None when the key is absent.
Get(d, key) == IF key \in DOMAIN d THEN d[key] ELSE None

\* d[key] = value
SetItem(d, key, value) ==
    [k \in (DOMAIN d) \cup {key} |-> IF k = key THEN value ELSE d[k]]

\* dict.setdefault(key, value): an existing key keeps its value.
SetDefault(d, key, value) == IF key \in DOMAIN d THEN d ELSE SetItem(d, key, value)

\* An element of an issues sequence: a mapping, or some other JSON value.
Mapping(d) == [isMap |-> TRUE, d |-> d]
NonMapping == [isMap |-> FALSE, d |-> EmptyDict]

Digits == <<"0","1","2","3","4","5","6","7","8","9">>

\* _timestamp(): the ISO 8601 text of the clock reading n.
Timestamp(n) == Str(<<"T", Digits[n + 1]>>)

-----------------------------------------------------------------------------
(* Status handling.                                                        *)

normalise_status(status) ==
    IF status = None THEN <<>> ELSE lower(strip(status.s))

\* Variant: the lookup reads "state" first and "status" only when that is empty.
IssueStatus_state_first(issue) ==
    LET state == normalise_status(IF issue.isMap THEN Get(issue.d, "state") ELSE None)
    IN  IF state = <<>>
        THEN normalise_status(IF issue.isMap THEN Get(issue.d, "status") ELSE None)
        ELSE state

\* The lookup each of the three helpers performs on an issue: the
\* normalised "status", and the normalised "state" when that is empty.
IssueStatus(issue) ==
    LET status == normalise_status(IF issue.isMap THEN Get(issue.d, "status") ELSE None)
    IN  IF status = <<>>
        THEN normalise_status(IF issue.isMap THEN Get(issue.d, "state") ELSE None)
        ELSE status

ensure_status_key(d, new_status) ==
    SetItem(SetItem(d, "status", Str(new_status)), "state", Str(new_status))

open_statuses == {t_open, t_opened, t_todo, t_backlog, t_in_progress}

\* Variants: complete_open_issues reacting to open only, and to closed too.
completable_statuses_open_only == {t_open}
completable_statuses_with_closed == {t_open, t_opened, t_closed}

\* The statuses complete_open_issues reacts to.
completable_statuses == {t_open, t_opened}

\* The loop of list_open_issues over an already available sequence.
RECURSIVE OpenLoop(_, _)
OpenLoop(seq, result) ==
    IF seq = <<>> THEN result
    ELSE OpenLoop(Tail(seq),
                  IF IssueStatus(Head(seq)) \in open_statuses
                  THEN Append(result, Head(seq))
                  ELSE result)

\* Variant: closed_at is assigned instead of set by default.
CloseOne_overwrites_stamp(issue, t) ==
    IF IssueStatus(issue) = t_implemented
    THEN Mapping(SetItem(ensure_status_key(issue.d, t_closed), "closed_at", Timestamp(t)))
    ELSE issue

\* One iteration of the loop of close_implemented_issues.
CloseOne(issue, t) ==
    IF IssueStatus(issue) = t_implemented
    THEN Mapping(SetDefault(ensure_status_key(issue.d, t_closed), "closed_at", Timestamp(t)))
    ELSE issue

CloseLoop(seq, t) == [i \in 1..Len(seq) |-> CloseOne(seq[i], t)]

\* Variants: only "status" is updated; completed_at is assigned instead of
\* set by default.
CompleteOne_status_only(issue, t) ==
    IF IssueStatus(issue) \in {t_open, t_opened}
    THEN Mapping(SetDefault(SetItem(issue.d, "status", Str(t_completed)),
                            "completed_at", Timestamp(t)))
    ELSE issue

CompleteOne_overwrites_stamp(issue, t) ==
    IF IssueStatus(issue) \in {t_open, t_opened}
    THEN Mapping(SetItem(ensure_status_key(issue.d, t_completed), "completed_at", Timestamp(t)))
    ELSE issue

\* One iteration of the loop of complete_open_issues.
CompleteOne(issue, t) ==
    IF IssueStatus(issue) \in completable_statuses
    THEN Mapping(SetDefault(ensure_status_key(issue.d, t_completed), "completed_at", Timestamp(t)))
    ELSE issue

CompleteLoop(seq, t) == [i \in 1..Len(seq) |-> CompleteOne(seq[i], t)]

-----------------------------------------------------------------------------
(* The file system and the environment.                                    *)

\* A file name: its stem and its suffix (pathlib's Path.name, split so that
\* the glob pattern "*.json" is a test on the suffix).
N(stem, ext) == [stem |-> stem, ext |-> ext]

DEFAULT_ISSUE_FILE_CANDIDATES ==
    << N("git_issues", ".json"), N("GitIssues", ".json"), N("issues", ".json"),
       N("git-issues", ".json"), N("Git Issues", ".json") >>

\* The search root (the repository root) and the directories the model
\* populates: a path is the sequence of its components.
Root   == << N("repo", "") >>
GitDir == Append(Root, N(".git", ""))
SubDir == Append(Root, N("docs", ""))
ExtDir == << N("data", "") >>

\* pathlib: path / name, path.name
Join(path, name) == Append(path, name)
Name(path) == path[Len(path)]

\* An entry of the file system.
Missing == [kind |-> "missing", content |-> [kind |-> "none", items |-> <<>>, nl |-> FALSE]]
Dir     == [kind |-> "dir", content |-> [kind |-> "none", items |-> <<>>, nl |-> FALSE]]
File(content) == [kind |-> "file", content |-> content]

\* Path.is_file(), Path.exists()
is_file(f, path) == path \in DOMAIN f /\ f[path].kind = "file"
exists(f, path) == path \in DOMAIN f /\ f[path].kind # "missing"

\* The value of an explicit_path / file_path argument, and of os.getenv.
NoPath == [given |-> FALSE, path |-> <<>>]
Given(path) == [given |-> TRUE, path |-> path]

\* What root_path.rglob("*.json") can yield: every existing entry below the
\* root, at any depth, file or directory, whose name ends in .json.
Rglob(f) ==
    { p \in DOMAIN f : /\ exists(f, p)
                       /\ Len(p) > Len(Root)
                       /\ SubSeq(p, 1, Len(Root)) = Root
                       /\ Name(p).ext = ".json" }

InCandidates(name, candidates) == \E i \in 1..Len(candidates) : candidates[i] = name

\* The entries the final loop of find_issues_file can return: one of them
\* is met first, in the order the operating system lists the directories.
ScanMatches(f) == { p \in Rglob(f) : InCandidates(Name(p), DEFAULT_ISSUE_FILE_CANDIDATES) }

ScanChoices(f) == IF ScanMatches(f) = {} THEN {<<>>} ELSE ScanMatches(f)

\* The first candidate, in order, that is a file in directory dir (0: none).
FirstCandidate(f, dir, candidates) ==
    LET hits == { i \in 1..Len(candidates) : is_file(f, Join(dir, candidates[i])) }
    IN  IF hits = {} THEN 0 ELSE CHOOSE i \in hits : \A j \in hits : i <= j

Found(path) == [err |-> "", path |-> path]
Raised(err) == [err |-> err, path |-> <<>>]

\* find_issues_file(explicit_path=explicit) with the default search root and
\* candidates; scan is the entry the recursive scan meets first (<<>>: none).
find_issues_file(f, e, explicit, scan) ==
    LET candidates == DEFAULT_ISSUE_FILE_CANDIDATES
        inRoot == FirstCandidate(f, Root, candidates)
        inGit  == FirstCandidate(f, GitDir, candidates)
    IN  IF explicit.given
        THEN IF is_file(f, explicit.path) THEN Found(explicit.path)
             ELSE Raised("FileNotFoundError")
        ELSE IF e.given /\ e.path # <<>> /\ is_file(f, e.path) THEN Found(e.path)
        ELSE IF inRoot # 0 THEN Found(Join(Root, candidates[inRoot]))
        ELSE IF exists(f, GitDir) /\ inGit # 0 THEN Found(Join(GitDir, candidates[inGit]))
        ELSE IF scan # <<>> THEN Found(scan)
        ELSE Raised("FileNotFoundError")

-----------------------------------------------------------------------------
(* File contents, json.load and json.dump.                                 *)

\* The text of a file, as far as the loader can tell files apart: a JSON
\* list (its items in order; an item is an object, given by its members in
\* the order written, or some other value) or another JSON value, and
\* whether the text ends in a line break.
ListContent(items, nl) == [kind |-> "list", items |-> items, nl |-> nl]
NonListContent == [kind |-> "nonlist", items |-> <<>>, nl |-> FALSE]
Obj(pairs) == [isObj |-> TRUE, pairs |-> pairs]
NonObj == [isObj |-> FALSE, pairs |-> <<>>]

\* The keys of the model in the order sort_keys=True writes them.
KeyOrder == <<"closed_at", "completed_at", "id", "state", "status", "title">>

\* json.load of an object: a repeated member name keeps its last value.
DictOfPairs(pairs) ==
    LET keys == { pairs[i][1] : i \in 1..Len(pairs) }
        lastIndex(k) == CHOOSE i \in 1..Len(pairs) :
                            /\ pairs[i][1] = k
                            /\ \A j \in 1..Len(pairs) : pairs[j][1] = k => j <= i
    IN  [k \in keys |-> pairs[lastIndex(k)][2]]

\* json.dump(..., sort_keys=True) of a dict: its members by ascending key.
PairsOfDict(d) ==
    LET keys == SelectSeq(KeyOrder, LAMBDA k : k \in DOMAIN d)
    IN  [i \in 1..Len(keys) |-> <<keys[i], d[keys[i]]>>]

\* Variant: the items are written last first.
Dump_reversed(seq) ==
    ListContent([i \in 1..Len(seq) |->
                    IF seq[Len(seq) + 1 - i].isMap
                    THEN Obj(PairsOfDict(seq[Len(seq) + 1 - i].d)) ELSE NonObj],
                TRUE)

\* What save_issues writes: the dump of list(issues), then "\n".
Dump(seq) ==
    ListContent([i \in 1..Len(seq) |->
                    IF seq[i].isMap THEN Obj(PairsOfDict(seq[i].d)) ELSE NonObj],
                TRUE)

\* A character json.load produces from the escape \ud800 that has no low
\* surrogate after it: a str may hold it, UTF-8 cannot encode it.
LoneSurrogate == "U+D800"

\* Whether the text device of open(..., "w", encoding="utf-8") can encode text.
Encodable(text) == \A i \in 1..Len(text) : text[i] # LoneSurrogate

\* Whether every string json.dump(..., ensure_ascii=False) writes for seq
\* can be encoded.
DumpEncodable(seq) ==
    \A i \in 1..Len(seq) :
        seq[i].isMap =>
            \A k \in DOMAIN seq[i].d : seq[i].d[k].t = "str" => Encodable(seq[i].d[k].s)

\* A file opened for writing whose dump stopped at a string that could not
\* be encoded: the beginning of a JSON list, which is not a JSON text.
Truncated == [kind |-> "invalid", items |-> <<>>, nl |-> FALSE]

Loaded(ret) == [err |-> "", ret |-> ret]
LoadFailed(err) == [err |-> err, ret |-> <<>>]

\* load_issues(file_path)
load_issues(f, e, file_path, scan) ==
    LET found == find_issues_file(f, e, file_path, scan)
    IN  IF found.err # "" THEN LoadFailed(found.err)
        ELSE IF f[found.path].kind = "dir" THEN LoadFailed("IsADirectoryError")
        ELSE LET data == f[found.path].content
             IN  IF data.kind = "invalid" THEN LoadFailed("JSONDecodeError")
                 ELSE IF data.kind # "list" THEN LoadFailed("ValueError")
                 ELSE IF \E i \in 1..Len(data.items) : ~data.items[i].isObj
                      THEN LoadFailed("ValueError")
                      ELSE Loaded([i \in 1..Len(data.items) |->
                                      Mapping(DictOfPairs(data.items[i].pairs))])

\* save_issues(issues, file_path=file_path): the error, the path returned
\* and the file system afterwards.
save_issues(f, e, seq, file_path, scan) ==
    LET found == find_issues_file(f, e, file_path, scan)
    IN  IF found.err # "" THEN [err |-> found.err, path |-> <<>>, fs |-> f]
        ELSE IF f[found.path].kind = "dir"
             THEN [err |-> "IsADirectoryError", path |-> <<>>, fs |-> f]
        ELSE IF ~DumpEncodable(seq)
             THEN [err |-> "UnicodeEncodeError", path |-> <<>>,
                   fs |-> [f EXCEPT ![found.path] = File(Truncated)]]
             ELSE [err |-> "", path |-> found.path,
                   fs |-> [f EXCEPT ![found.path] = File(Dump(seq))]]

-----------------------------------------------------------------------------
(* The three helpers.  mem says whether the caller supplied a sequence     *)
(* (issues is not None), seq is that sequence, file_path the file_path     *)
(* argument, t the clock reading _timestamp() returns during the call.     *)
(* Each gives the error raised ("" when none), the list returned, the file *)
(* system afterwards and the caller's sequence afterwards (its elements    *)
(* are updated in place).                                                  *)

list_open_issues(f, e, mem, seq, file_path, scan) ==
    LET src == IF mem THEN Loaded(seq) ELSE load_issues(f, e, file_path, scan)
    IN  IF src.err # "" THEN [err |-> src.err, ret |-> <<>>, fs |-> f, issues |-> seq]
        ELSE [err |-> "", ret |-> OpenLoop(src.ret, <<>>), fs |-> f, issues |-> seq]

\* Variant: the test is "if not issues", so an empty sequence counts as none.
close_implemented_issues_falsy_test(f, e, mem, seq, file_path, scan, t) ==
    LET none == ~mem \/ seq = <<>>
        src == IF none THEN load_issues(f, e, file_path, scan) ELSE Loaded(seq)
        updated == CloseLoop(src.ret, t)
        saved == save_issues(f, e, updated, file_path, scan)
    IN  IF src.err # "" THEN [err |-> src.err, ret |-> <<>>, fs |-> f, issues |-> seq]
        ELSE IF none
        THEN [err |-> saved.err, ret |-> IF saved.err = "" THEN updated ELSE <<>>,
              fs |-> saved.fs, issues |-> seq]
        ELSE [err |-> "", ret |-> updated, fs |-> f, issues |-> updated]

close_implemented_issues(f, e, mem, seq, file_path, scan, t) ==
    LET src == IF mem THEN Loaded(seq) ELSE load_issues(f, e, file_path, scan)
        persist == ~mem
        updated == CloseLoop(src.ret, t)
        saved == save_issues(f, e, updated, file_path, scan)
    IN  IF src.err # "" THEN [err |-> src.err, ret |-> <<>>, fs |-> f, issues |-> seq]
        ELSE IF persist
        THEN [err |-> saved.err, ret |-> IF saved.err = "" THEN updated ELSE <<>>,
              fs |-> saved.fs, issues |-> seq]
        ELSE [err |-> "", ret |-> updated, fs |-> f, issues |-> updated]

complete_open_issues(f, e, mem, seq, file_path, scan, t) ==
    LET src == IF mem THEN Loaded(seq) ELSE load_issues(f, e, file_path, scan)
        persist == ~mem
        updated == CompleteLoop(src.ret, t)
        saved == save_issues(f, e, updated, file_path, scan)
    IN  IF src.err # "" THEN [err |-> src.err, ret |-> <<>>, fs |-> f, issues |-> seq]
        ELSE IF persist
        THEN [err |-> saved.err, ret |-> IF saved.err = "" THEN updated ELSE <<>>,
              fs |-> saved.fs, issues |-> seq]
        ELSE [err |-> "", ret |-> updated, fs |-> f, issues |-> updated]

-----------------------------------------------------------------------------
(* Inputs.                                                                 *)

Absent == [t |-> "absent", s |-> <<>>, n |-> 0]

\* An issue with the given id and the given status, state, closed_at and
\* completed_at members (Absent: the member is not there).
MkIssue(id, status, state, closed_at, completed_at) ==
    Mapping(DictOfPairs(SelectSeq(
        << <<"id", Num(id)>>, <<"title", Str(<<"T">>)>>, <<"status", status>>,
           <<"state", state>>, <<"closed_at", closed_at>>,
           <<"completed_at", completed_at>> >>,
        LAMBDA p : p[2] # Absent)))

\* Status texts as they may stand in a file: other casing, surrounding
\* white space, white space only, a status none of the helpers knows.
x_Open        == <<" ","O","p","e","n","\n">>
x_OPENED      == <<"O","P","E","N","E","D">>
x_Implemented == <<"\t","I","m","p","l","e","m","e","n","t","e","d"," ">>
x_blank       == <<" "," ">>
x_wontfix     == <<"w","o","n","t","f","i","x">>

OldStamp == Timestamp(0)

IssuePool ==
    { MkIssue(1, Str(st), Absent, Absent, Absent) :
        st \in {t_open, x_Open, x_OPENED, t_todo, t_backlog, t_in_progress,
                t_implemented, t_closed, x_wontfix} }
    \cup
    { MkIssue(2, st, Str(se), Absent, Absent) :
        st \in {Absent, None, Str(x_blank), Str(t_closed)},
        se \in {t_open, x_Implemented} }
    \cup
    { MkIssue(3, Str(t_open), Absent, OldStamp, OldStamp),
      MkIssue(3, Str(t_open), Absent, Absent, OldStamp),
      MkIssue(3, Str(t_implemented), Absent, OldStamp, Absent),
      MkIssue(3, Str(t_implemented), Absent, None, OldStamp) }
    \cup
    { Mapping(DictOfPairs(<< <<"id", Num(4)>> >>)), NonMapping }

RECURSIVE SeqsUpTo(_, _)
SeqsUpTo(S, n) ==
    IF n = 0 THEN { <<>> }
    ELSE LET shorter == SeqsUpTo(S, n - 1)
         IN  shorter \cup { Append(q, x) : q \in { r \in shorter : Len(r) = n - 1 }, x \in S }

\* File contents: a list of two objects whose members are not in key order,
\* one of them with a repeated member, and no final line break; a JSON
\* value that is not a list; a list one of whose items is not an object; a
\* list of one object whose title is written "\ud800".
c_valid ==
    ListContent(
        << Obj(<< <<"status", Str(t_todo)>>, <<"title", Str(<<"A">>)>>,
                  <<"id", Num(1)>>, <<"status", Str(x_Open)>> >>),
           Obj(<< <<"state", Str(t_implemented)>>, <<"id", Num(2)>> >>) >>,
        FALSE)
c_nonlist == NonListContent
c_badelem == ListContent(<< Obj(<< <<"id", Num(3)>>, <<"status", Str(t_open)>> >>), NonObj >>, TRUE)

c_surrogate ==
    ListContent(<< Obj(<< <<"id", Num(5)>>, <<"status", Str(t_implemented)>>,
                          <<"title", Str(<<LoneSurrogate>>)>> >>) >>, TRUE)

Contents == {c_valid, c_nonlist, c_badelem, c_surrogate}

ExtFile == Join(ExtDir, N("export", ".json"))

Leaves ==
    { Join(Root, DEFAULT_ISSUE_FILE_CANDIDATES[1]), Join(Root, DEFAULT_ISSUE_FILE_CANDIDATES[3]),
      Join(GitDir, DEFAULT_ISSUE_FILE_CANDIDATES[1]), Join(GitDir, DEFAULT_ISSUE_FILE_CANDIDATES[3]),
      Join(SubDir, DEFAULT_ISSUE_FILE_CANDIDATES[1]), Join(SubDir, N("package", ".json")),
      ExtFile }

Paths == Leaves \cup {GitDir}

UnderGit(p) == Len(p) > Len(GitDir) /\ SubSeq(p, 1, Len(GitDir)) = GitDir

EntryChoices == {Dir} \cup { File(c) : c \in Contents }

\* The sequences a caller holds in the file scenarios.
MemPool ==
    { <<>>,
      << MkIssue(7, Str(t_implemented), Absent, Absent, Absent),
         MkIssue(8, Absent, Str(x_OPENED), Absent, Absent) >> }

EnvChoices == { NoPath, Given(<<>>), Given(ExtFile) }

PathArgs == { NoPath, Given(ExtFile) }

NoCall == [op |-> "init", mem |-> FALSE, file_path |-> NoPath, scan |-> <<>>,
           pre |-> <<>>, fsPre |-> [p \in Paths |-> Missing],
           err |-> "", ret |-> <<>>, path |-> <<>>, t |-> 0]

-----------------------------------------------------------------------------
(* Initial states.                                                         *)

\* A caller holding a sequence of issues; nothing on disk.
Init ==
    /\ issues \in SeqsUpTo(IssuePool, MaxIssues)
    /\ issues0 = issues
    /\ fs = [p \in Paths |-> Missing]
    /\ env = NoPath
    /\ now = 1
    /\ last = NoCall
    /\ hist = <<>>

\* A file system with at most MaxEntries files or directories among the
\* places find_issues_file looks at; .git is a directory when it has
\* entries, and otherwise missing, a directory or a file.
InitFile ==
    /\ \E E \in SUBSET Leaves :
         /\ Cardinality(E) <= MaxEntries
         /\ \E a \in [E -> EntryChoices] :
            \E g \in IF \E p \in E : UnderGit(p) THEN {Dir}
                     ELSE {Missing, Dir, File(c_nonlist)} :
                fs = [p \in Paths |-> IF p = GitDir THEN g
                                      ELSE IF p \in E THEN a[p] ELSE Missing]
    /\ env \in EnvChoices
    /\ issues = <<>>
    /\ issues0 = issues
    /\ now = 1
    /\ last = NoCall
    /\ hist = <<>>

-----------------------------------------------------------------------------
(* Calls.  Every call is recorded in last: the arguments, the sequence     *)
(* supplied and the file system before the call, and what came back.       *)

Record(op, mem, seq, file_path, scan, out) ==
    /\ last' = [op |-> op, mem |-> mem, file_path |-> file_path, scan |-> scan,
                pre |-> seq, fsPre |-> fs,
                err |-> out.err, ret |-> out.ret, path |-> out.path, t |-> now]
    /\ hist' = Append(hist, op)
    /\ now' = now + 1
    /\ UNCHANGED env

FindCall(explicit) ==
    \E scan \in ScanChoices(fs) :
        LET found == find_issues_file(fs, env, explicit, scan)
        IN  /\ Record("find", FALSE, <<>>, explicit, scan,
                      [err |-> found.err, ret |-> <<>>, path |-> found.path])
            /\ UNCHANGED <<issues, fs, issues0>>

LoadCall(file_path) ==
    \E scan \in ScanChoices(fs) :
        LET out == load_issues(fs, env, file_path, scan)
        IN  /\ Record("load", FALSE, <<>>, file_path, scan,
                      [err |-> out.err, ret |-> out.ret, path |-> <<>>])
            /\ UNCHANGED <<issues, fs, issues0>>

SaveCall(seq, file_path) ==
    \E scan \in ScanChoices(fs) :
        LET out == save_issues(fs, env, seq, file_path, scan)
        IN  /\ Record("save", TRUE, seq, file_path, scan,
                      [err |-> out.err, ret |-> <<>>, path |-> out.path])
            /\ fs' = out.fs
            /\ issues' = seq
            /\ UNCHANGED issues0

ListCall(mem, seq, file_path) ==
    \E scan \in ScanChoices(fs) :
        LET out == list_open_issues(fs, env, mem, seq, file_path, scan)
        IN  /\ Record("list", mem, seq, file_path, scan,
                      [err |-> out.err, ret |-> out.ret, path |-> <<>>])
            /\ fs' = out.fs
            /\ issues' = out.issues
            /\ UNCHANGED issues0

CloseCall(mem, seq, file_path) ==
    \E scan \in ScanChoices(fs) :
        LET out == close_implemented_issues(fs, env, mem, seq, file_path, scan, now)
        IN  /\ Record("close", mem, seq, file_path, scan,
                      [err |-> out.err, ret |-> out.ret, path |-> <<>>])
            /\ fs' = out.fs
            /\ issues' = out.issues
            /\ UNCHANGED issues0

CompleteCall(mem, seq, file_path) ==
    \E scan \in ScanChoices(fs) :
        LET out == complete_open_issues(fs, env, mem, seq, file_path, scan, now)
        IN  /\ Record("complete", mem, seq, file_path, scan,
                      [err |-> out.err, ret |-> out.ret, path |-> <<>>])
            /\ fs' = out.fs
            /\ issues' = out.issues
            /\ UNCHANGED issues0

\* A caller working on the sequence it holds, for up to MaxCalls calls.
ListHeld == Len(hist) < MaxCalls /\ ListCall(TRUE, issues, NoPath)
CloseHeld == Len(hist) < MaxCalls /\ CloseCall(TRUE, issues, NoPath)
CompleteHeld == Len(hist) < MaxCalls /\ CompleteCall(TRUE, issues, NoPath)

Next == ListHeld \/ CloseHeld \/ CompleteHeld

Spec == Init /\ [][Next]_vars

\* One call of one of the six functions on a file system, with or without
\* a sequence supplied (mem) and with or without a file_path.
Callers == { [mem |-> FALSE, seq |-> <<>>] } \cup { [mem |-> TRUE, seq |-> q] : q \in MemPool }

FindOnce == hist = <<>> /\ \E file_path \in PathArgs : FindCall(file_path)
LoadOnce == hist = <<>> /\ \E file_path \in PathArgs : LoadCall(file_path)
SaveOnce == hist = <<>> /\ \E q \in MemPool, file_path \in PathArgs : SaveCall(q, file_path)
ListOnce == hist = <<>> /\ \E c \in Callers, file_path \in PathArgs : ListCall(c.mem, c.seq, file_path)
CloseOnce == hist = <<>> /\ \E c \in Callers, file_path \in PathArgs : CloseCall(c.mem, c.seq, file_path)
CompleteOnce ==
    hist = <<>> /\ \E c \in Callers, file_path \in PathArgs : CompleteCall(c.mem, c.seq, file_path)

NextFile == FindOnce \/ LoadOnce \/ SaveOnce \/ ListOnce \/ CloseOnce \/ CompleteOnce

SpecFile == InitFile /\ [][NextFile]_vars

\* A caller that loads a file, saves what it loaded to the same file, loads
\* it again and saves again.  issues0 keeps the first load.
RoundLoad ==
    /\ hist = <<>> \/ (hist = <<"load", "save">> /\ last.err = "")
    /\ \E file_path \in { Given(p) : p \in Leaves } :
         /\ hist # <<>> => file_path = last.file_path
         /\ \E scan \in ScanChoices(fs) :
              LET out == load_issues(fs, env, file_path, scan)
              IN  /\ Record("load", FALSE, <<>>, file_path, scan,
                            [err |-> out.err, ret |-> out.ret, path |-> <<>>])
                  /\ issues' = out.ret
                  /\ issues0' = IF hist = <<>> THEN out.ret ELSE issues0
                  /\ UNCHANGED fs

RoundSave ==
    /\ hist \in { <<"load">>, <<"load", "save", "load">> }
    /\ last.err = ""
    /\ SaveCall(issues, last.file_path)

NextRoundTrip == RoundLoad \/ RoundSave

SpecRoundTrip == InitFile /\ [][NextRoundTrip]_vars

-----------------------------------------------------------------------------
(* Vocabulary of the properties.                                           *)

\* The text under key of an issue; the empty text when the issue has no
\* such member (or it is null, or the element is no mapping).
FieldText(issue, key) ==
    IF issue.isMap /\ key \in DOMAIN issue.d /\ issue.d[key].t = "str"
    THEN issue.d[key].s
    ELSE <<>>

\* An issue's effective status: its status trimmed and lower-cased, or,
\* only when that is empty, its state trimmed and lower-cased.
EffectiveStatus(issue) ==
    LET st == lower(strip(FieldText(issue, "status")))
    IN  IF st # <<>> THEN st ELSE lower(strip(FieldText(issue, "state")))

OpenSet == {t_open, t_opened, t_todo, t_backlog, t_in_progress}

Range(q) == { q[i] : i \in 1..Len(q) }

HasKey(issue, key) == issue.isMap /\ key \in DOMAIN issue.d

\* after is before with status and state set to new_status and the stamp
\* member added if and only if it was absent; nothing else differs.
Marked(before, after, new_status, stamp) ==
    /\ after.isMap
    /\ after # before
    /\ DOMAIN after.d = DOMAIN before.d \cup {"status", "state", stamp}
    /\ after.d["status"] = Str(new_status)
    /\ after.d["state"] = Str(new_status)
    /\ stamp \in DOMAIN before.d => after.d[stamp] = before.d[stamp]
    /\ \A k \in DOMAIN before.d \ {"status", "state", stamp} : after.d[k] = before.d[k]

\* A call on a sequence supplied by the caller that returned.
HeldCall(op) == last.op = op /\ last.mem /\ last.err = ""

-----------------------------------------------------------------------------
\* C1: list_open_issues returns exactly the issues whose effective status is
\* one of open, opened, todo, backlog, in_progress, each once and in input
\* order; an issue with neither key, or whose non-empty status is outside
\* the set although its state is inside it, is not returned.
C1_ListOpen ==
    HeldCall("list") =>
        /\ last.ret = SelectSeq(last.pre, LAMBDA i : EffectiveStatus(i) \in OpenSet)
        /\ \A i \in 1..Len(last.pre) :
              LET x == last.pre[i]
                  st == lower(strip(FieldText(x, "status")))
              IN  (\/ ~HasKey(x, "status") /\ ~HasKey(x, "state")
                   \/ st # <<>> /\ st \notin OpenSet)
                  => x \notin Range(last.ret)
        /\ issues = last.pre

\* A list call on two issues: one whose status is closed and whose state is
\* open (left out), one found through its state since its status is blank.
C1_Witness ==
    /\ HeldCall("list")
    /\ last.pre = << MkIssue(2, Str(t_closed), Str(t_open), Absent, Absent),
                     MkIssue(2, Str(x_blank), Str(t_open), Absent, Absent) >>
    /\ last.ret = << MkIssue(2, Str(x_blank), Str(t_open), Absent, Absent) >>

\* C2: close_implemented_issues changes exactly the issues whose effective
\* status is implemented: status and state become closed, closed_at is added
\* if and only if it was absent; every other issue, every other field, and
\* the number and order of the issues stay.
C2_CloseImplemented ==
    HeldCall("close") =>
        /\ Len(last.ret) = Len(last.pre)
        /\ issues = last.ret
        /\ \A i \in 1..Len(last.pre) :
              IF EffectiveStatus(last.pre[i]) = t_implemented
              THEN Marked(last.pre[i], last.ret[i], t_closed, "closed_at")
              ELSE last.ret[i] = last.pre[i]

\* A close call on an open issue followed by an implemented issue that
\* already carries closed_at: the first stays, the second is closed and
\* keeps its stamp.
C2_Witness ==
    /\ HeldCall("close")
    /\ Len(last.pre) = 2
    /\ EffectiveStatus(last.pre[1]) = t_open
    /\ last.ret[1] = last.pre[1]
    /\ EffectiveStatus(last.pre[2]) = t_implemented
    /\ HasKey(last.pre[2], "closed_at")
    /\ last.ret[2].d["status"] = Str(t_closed)
    /\ last.ret[2].d["closed_at"] = OldStamp

\* C3: complete_open_issues changes exactly the issues whose effective
\* status is open or opened: status and state become completed,
\* completed_at is added if and only if it was absent; every other issue,
\* every other field, and the number and order of the issues stay.
C3_CompleteOpen ==
    HeldCall("complete") =>
        /\ Len(last.ret) = Len(last.pre)
        /\ issues = last.ret
        /\ \A i \in 1..Len(last.pre) :
              IF EffectiveStatus(last.pre[i]) \in {t_open, t_opened}
              THEN Marked(last.pre[i], last.ret[i], t_completed, "completed_at")
              ELSE last.ret[i] = last.pre[i]

\* A complete call on an issue open through its state (it has no status)
\* followed by a todo issue: the first is completed and stamped with the
\* time of the call, the second stays.
C3_Witness ==
    /\ HeldCall("complete")
    /\ Len(last.pre) = 2
    /\ ~HasKey(last.pre[1], "status")
    /\ EffectiveStatus(last.pre[1]) = t_open
    /\ last.ret[1].d["state"] = Str(t_completed)
    /\ last.ret[1].d["completed_at"] = Timestamp(last.t)
    /\ EffectiveStatus(last.pre[2]) = t_todo
    /\ last.ret[2] = last.pre[2]

\* The issues list_open_issues returns from seq.
OpenOf(seq) == list_open_issues(fs, env, TRUE, seq, NoPath, <<>>).ret

\* C8 as stated: after complete_open_issues every issue list_open_issues
\* returned before the call has status and state completed, and
\* list_open_issues on the result returns no issue.
C8_AsStated ==
    HeldCall("complete") =>
        /\ \A i \in 1..Len(last.pre) :
              last.pre[i] \in Range(OpenOf(last.pre)) =>
                  /\ FieldText(last.ret[i], "status") = t_completed
                  /\ FieldText(last.ret[i], "state") = t_completed
        /\ OpenOf(last.ret) = <<>>

\* C8, amended: after complete_open_issues every issue list_open_issues
\* returned before the call whose effective status is open or opened has
\* status and state completed; the issues it returned with effective status
\* todo, backlog or in_progress are unchanged, and list_open_issues on the
\* result returns exactly those, in order.
C8_CompletesOpenAndOpened ==
    HeldCall("complete") =>
        /\ \A i \in 1..Len(last.pre) :
              last.pre[i] \in Range(OpenOf(last.pre)) =>
                  IF EffectiveStatus(last.pre[i]) \in {t_open, t_opened}
                  THEN /\ FieldText(last.ret[i], "status") = t_completed
                       /\ FieldText(last.ret[i], "state") = t_completed
                  ELSE /\ EffectiveStatus(last.pre[i]) \in {t_todo, t_backlog, t_in_progress}
                       /\ last.ret[i] = last.pre[i]
        /\ OpenOf(last.ret) =
              SelectSeq(last.pre,
                        LAMBDA i : EffectiveStatus(i) \in {t_todo, t_backlog, t_in_progress})

\* A complete call on an OPENED issue and a backlog issue, both listed as
\* open before: afterwards the first is completed, the second is still
\* listed.
C8_Witness ==
    /\ HeldCall("complete")
    /\ Len(last.pre) = 2
    /\ OpenOf(last.pre) = last.pre
    /\ FieldText(last.pre[1], "status") = x_OPENED
    /\ FieldText(last.ret[1], "status") = t_completed
    /\ EffectiveStatus(last.pre[2]) = t_backlog
    /\ OpenOf(last.ret) = << last.pre[2] >>

Terminal(issue) == EffectiveStatus(issue) \in {t_closed, t_completed}

OpenIndexes(seq) == { i \in 1..Len(seq) : seq[i] \in Range(OpenOf(seq)) }

\* C9: over any sequence of close, complete and list calls on the same
\* issues, an issue whose effective status is closed or completed is not
\* changed by any later call; a closed_at or completed_at once present
\* keeps its value; the issues list_open_issues returns never gain a member;
\* a second call of the same mutation changes nothing.
C9_Terminal ==
    [][ /\ Len(issues') = Len(issues)
        /\ \A i \in 1..Len(issues) :
              /\ Terminal(issues[i]) => issues'[i] = issues[i]
              /\ \A k \in {"closed_at", "completed_at"} :
                    HasKey(issues[i], k) =>
                        HasKey(issues'[i], k) /\ issues'[i].d[k] = issues[i].d[k]
        /\ OpenIndexes(issues') \subseteq OpenIndexes(issues)
        /\ (last.op \in {"close", "complete"} /\ last'.op = last.op) => issues' = issues
      ]_vars

\* Two close calls in a row on a sequence with an implemented issue: the
\* first closed and stamped it, the second left stamp and issue alone.
C9_Witness ==
    /\ hist = <<"close", "close">>
    /\ \E i \in 1..Len(issues) :
          /\ EffectiveStatus(issues0[i]) = t_implemented
          /\ ~HasKey(issues0[i], "closed_at")
          /\ Terminal(issues[i])
          /\ issues[i].d["closed_at"] = Timestamp(1)
          /\ issues[i] = last.pre[i]

\* What the claim compares: status, state, and which stamps are carried.
Outline(seq) ==
    [i \in 1..Len(seq) |->
        <<FieldText(seq[i], "status"), FieldText(seq[i], "state"),
          HasKey(seq[i], "status"), HasKey(seq[i], "state"),
          HasKey(seq[i], "closed_at"), HasKey(seq[i], "completed_at")>>]

\* C10: close_implemented_issues and complete_open_issues commute: close
\* then complete and complete then close give the same status and state on
\* every issue and the same issues carrying closed_at and completed_at.
C10_Commute ==
    /\ hist = <<"close", "complete">> =>
          Outline(issues) =
              Outline(close_implemented_issues(fs, env, TRUE,
                          complete_open_issues(fs, env, TRUE, issues0, NoPath, <<>>, 1).ret,
                          NoPath, <<>>, 2).ret)
    /\ hist = <<"complete", "close">> =>
          Outline(issues) =
              Outline(complete_open_issues(fs, env, TRUE,
                          close_implemented_issues(fs, env, TRUE, issues0, NoPath, <<>>, 1).ret,
                          NoPath, <<>>, 2).ret)

\* Close then complete on an implemented issue and an open issue: one ends
\* closed with closed_at, the other completed with completed_at.
C10_Witness ==
    /\ hist = <<"close", "complete">>
    /\ Len(issues) = 2
    /\ EffectiveStatus(issues0[1]) = t_implemented
    /\ EffectiveStatus(issues0[2]) = t_open
    /\ FieldText(issues[1], "status") = t_closed /\ HasKey(issues[1], "closed_at")
    /\ FieldText(issues[2], "status") = t_completed /\ HasKey(issues[2], "completed_at")
    /\ ~HasKey(issues[1], "completed_at") /\ ~HasKey(issues[2], "closed_at")

-----------------------------------------------------------------------------
(* Properties of the file operations.                                      *)

\* The file a call without a supplied sequence loaded from.
LoadedFrom == find_issues_file(last.fsPre, env, last.file_path, last.scan).path

\* The sequence of dicts a file content holds.
Held(content) == [i \in 1..Len(content.items) |-> Mapping(DictOfPairs(content.items[i].pairs))]

\* Whether the call without a supplied sequence got its issues from a file.
LoadedFromFile == load_issues(last.fsPre, env, last.file_path, last.scan).err = ""

\* C4: close_implemented_issues and complete_open_issues write the issues
\* file if and only if no sequence was supplied: then the file they loaded
\* from holds the updated sequence after the call (and no other file
\* differs); with a sequence supplied, an empty one and one given together
\* with file_path included, the call does not depend on the file system and
\* leaves it unchanged.
C4_PersistOnlyWithoutSequence ==
    last.op \in {"close", "complete"} =>
        /\ last.mem =>
              /\ fs = last.fsPre
              /\ last.err = ""
              /\ Len(last.ret) = Len(last.pre)
        /\ (~last.mem /\ LoadedFromFile) =>
              /\ last.err = ""
              /\ is_file(last.fsPre, LoadedFrom)
              /\ is_file(fs, LoadedFrom)
              /\ fs[LoadedFrom].content.kind = "list"
              /\ \A i \in 1..Len(fs[LoadedFrom].content.items) :
                    fs[LoadedFrom].content.items[i].isObj
              /\ Held(fs[LoadedFrom].content) = last.ret
              /\ last.ret = (IF last.op = "close"
                             THEN CloseLoop(Held(last.fsPre[LoadedFrom].content), last.t)
                             ELSE CompleteLoop(Held(last.fsPre[LoadedFrom].content), last.t))
              /\ fs[LoadedFrom] = File(ListContent(fs[LoadedFrom].content.items, TRUE))
              /\ \A p \in Paths \ {LoadedFrom} : fs[p] = last.fsPre[p]

\* C5: for a valid issues file at p, save_issues(load_issues(p), file_path=p)
\* followed by load_issues(p) yields the first load again (same issues, same
\* order, same keys and values), and saving a second time leaves the file
\* content as the first save made it.
C5_RoundTrip ==
    /\ (hist = <<"load", "save", "load">> /\ last.err = "") => issues = issues0
    /\ hist = <<"load", "save">> => last.err = "" /\ last.path = last.file_path.path
    /\ hist = <<"load", "save", "load">> => last.err = ""
    /\ hist = <<"load", "save", "load", "save">> =>
          /\ last.err = ""
          /\ fs = last.fsPre
          /\ Held(fs[last.path].content) = issues0

-----------------------------------------------------------------------------
\* The lowest member of a set of numbers.
Lowest(S) == CHOOSE i \in S : \A j \in S : i <= j

CandidateFilesIn(f, dir) ==
    { i \in 1..Len(DEFAULT_ISSUE_FILE_CANDIDATES) :
        is_file(f, Join(dir, DEFAULT_ISSUE_FILE_CANDIDATES[i])) }

\* The files, at any depth below the root, whose name is a candidate.
CandidateFilesBelowRoot(f) ==
    { p \in DOMAIN f : /\ is_file(f, p)
                       /\ Len(p) > Len(Root) /\ SubSeq(p, 1, Len(Root)) = Root
                       /\ \E i \in 1..Len(DEFAULT_ISSUE_FILE_CANDIDATES) :
                             Name(p) = DEFAULT_ISSUE_FILE_CANDIDATES[i] }

\* The outcomes the precedence rule allows for find_issues_file.
Allowed(f, e, explicit) ==
    IF explicit.given
    THEN IF is_file(f, explicit.path) THEN {Found(explicit.path)}
         ELSE {Raised("FileNotFoundError")}
    ELSE IF e.given /\ is_file(f, e.path) THEN {Found(e.path)}
    ELSE IF CandidateFilesIn(f, Root) # {}
    THEN {Found(Join(Root, DEFAULT_ISSUE_FILE_CANDIDATES[Lowest(CandidateFilesIn(f, Root))]))}
    ELSE IF CandidateFilesIn(f, GitDir) # {}
    THEN {Found(Join(GitDir, DEFAULT_ISSUE_FILE_CANDIDATES[Lowest(CandidateFilesIn(f, GitDir))]))}
    ELSE IF CandidateFilesBelowRoot(f) # {}
    THEN { Found(p) : p \in CandidateFilesBelowRoot(f) }
    ELSE {Raised("FileNotFoundError")}

\* C6: find_issues_file resolves by strict precedence: the explicit path
\* (a file, or else a not-found error); else the GIT_ISSUES_FILE path if it
\* is a file; else the first candidate that is a file under the root; else
\* the first candidate that is a file under .git; else a file found by the
\* recursive scan whose name is a candidate; else a not-found error.
C6_Precedence ==
    last.op = "find" =>
        [err |-> last.err, path |-> last.path] \in Allowed(last.fsPre, env, last.file_path)

\* C7: without a supplied sequence, load_issues, list_open_issues,
\* close_implemented_issues and complete_open_issues fail with a not-found
\* error when no issues file can be located, and with a format error when
\* the located file is not a list or has an item that is not an object; in
\* these failures nothing is returned and no file is written or changed.
C7_Failures ==
    (last.op \in {"load", "list", "close", "complete"} /\ ~last.mem) =>
        LET allowed == Allowed(last.fsPre, env, last.file_path)
        IN  /\ allowed = {Raised("FileNotFoundError")} =>
                  last.err = "FileNotFoundError" /\ last.ret = <<>> /\ fs = last.fsPre
            /\ \A a \in allowed :
                  (/\ a.err = ""
                   /\ LoadedFrom = a.path
                   /\ \/ last.fsPre[a.path].content.kind # "list"
                      \/ \E i \in 1..Len(last.fsPre[a.path].content.items) :
                            ~last.fsPre[a.path].content.items[i].isObj)
                  => last.err = "ValueError" /\ last.ret = <<>> /\ fs = last.fsPre

-----------------------------------------------------------------------------
(* How the four violated properties are violated: only through a          *)
(* directory returned by the recursive scan (C6, C7) and only through a   *)
(* dump that cannot be encoded (C4, C5).                                   *)

OnlyDirectoriesBreakPrecedence ==
    C6_Precedence \/ (last.err = "" /\ last.fsPre[last.path].kind = "dir")

OnlyDirectoriesBreakFailures ==
    C7_Failures \/ last.err = "IsADirectoryError"

OnlyEncodingBreaksPersistence ==
    C4_PersistOnlyWithoutSequence \/ last.err = "UnicodeEncodeError"

OnlyEncodingBreaksRoundTrip ==
    C5_RoundTrip \/ (hist = <<"load", "save">> /\ last.err = "UnicodeEncodeError")

====
